---- MODULE Spec2Model ----
(***************************************************************************)
(* Model of src/app.py: the task ledger kept in the session state, the      *)
(* spreadsheet it is loaded from and saved to, and the handlers of the UI   *)
(* (form submit, cell edits of the two tables, bulk delete, notification).  *)
(*                                                                          *)
(* Column names and option values are written in ASCII:                     *)
(*   notify = 通知, delete = 削除, title = タイトル, details = 詳細,         *)
(*   requester = 依頼者, assignee1..3 = 担当者1..3, priority = 優先度,       *)
(*   status = 進捗, due_date = 期限, completion_date = 完了日,               *)
(*   remarks = 備考; High/Medium/Low = 高/中/低;                             *)
(*   Unstarted/InProgress/Done = 未対応/進行中/完了.                         *)
(***************************************************************************)
EXTENDS Integers, Sequences, FiniteSets, TLC

VARIABLES
    sheet_header,   \* row 1 of the sheet: the column names get_all_records keys by
    sheet_rows,     \* rows 2.. of the sheet, a sequence of rows of cells (text)
    has_session,    \* 'tasks_df' in st.session_state
    tasks_df,       \* st.session_state.tasks_df: the in-memory ledger
    df_columns,     \* st.session_state.tasks_df.columns, as a set
    edit_index,     \* st.session_state.edit_index
    today,          \* datetime.date.today()
    op,             \* the interaction the last script run handled
    op_arg,         \* the inputs of that interaction
    ui_msg,         \* the st.error / st.warning / st.success it showed last
    save_calls,     \* number of save_data calls it made
    save_result,    \* what save_data returned: "none" (not called), "ok", "fail"
    mail_calls,     \* number of send_gmail calls it made
    mail_rows,      \* the records enumerated in the mail body it composed
    saving,         \* the save_data calls of concurrent sessions that are under way
    steps           \* number of script runs handled so far

vars == <<sheet_header, sheet_rows, has_session, tasks_df, df_columns, edit_index,
          today, op, op_arg, ui_msg, save_calls, save_result, mail_calls, mail_rows,
          saving, steps>>

----------------------------------------------------------------------------
(* Bounds of the model *)

\* the form appends while the ledger is shorter than this
MaxRows == 3

\* a behaviour handles this many script runs
MaxSteps == 4

----------------------------------------------------------------------------
(* Constants of the program *)

PRIORITY_OPTIONS == <<"High", "Medium", "Low">>

STATUS_OPTIONS == <<"Unstarted", "InProgress", "Done">>

SPREADSHEET_ORDER ==
    <<"title", "details", "requester", "assignee1", "assignee2", "assignee3",
      "priority", "status", "due_date", "completion_date", "remarks">>

\* the data range "A2:K1000": columns A..K, and rows 2..1000 (999 rows of data)
RANGE_COLS == 11

RANGE_ROWS == 999

APP_COLS == {"notify", "delete"}

DATE_COLS == {"due_date", "completion_date"}

\* None / NaT: the absent date
NaT == 0

\* None as the value of st.session_state.edit_index: no edit target
NoIndex == 0

Days == 1..3

\* the texts strftime('%Y-%m-%d') gives for the days of the model
DATE_TEXT == <<"2024-06-01", "2024-06-02", "2024-06-03">>

----------------------------------------------------------------------------
(* Helpers *)

Range(s) == {s[i] : i \in DOMAIN s}

Max(a, b) == IF a >= b THEN a ELSE b

IndexOf(s, x) == CHOOSE i \in DOMAIN s : s[i] = x

\* the positions of idx that lie in keep, in order: a boolean mask applied to a frame
RECURSIVE Mask(_, _)
Mask(idx, keep) ==
    IF idx = <<>> THEN <<>>
    ELSE IF Head(idx) \in keep THEN <<Head(idx)>> \o Mask(Tail(idx), keep)
         ELSE Mask(Tail(idx), keep)

Positions(df) == [i \in 1..Len(df) |-> i]

Rows(df, idx) == [k \in 1..Len(idx) |-> df[idx[k]]]

----------------------------------------------------------------------------
(* Field conversions *)

\* load_data.parse_date: empty or unparseable text is None
parse_date(x) ==
    IF x = "" THEN NaT
    ELSE IF x \in Range(DATE_TEXT) THEN IndexOf(DATE_TEXT, x)
    ELSE NaT

\* save_data: x.strftime('%Y-%m-%d') if x is not None and pd.notnull(x) else ""
format_date(x) == IF x # NaT /\ x \in Days THEN DATE_TEXT[x] ELSE ""

\* ensure_date_columns on a value that is already a date or None
to_date(x) == IF x \in Days THEN x ELSE NaT

ensure_date_columns(df) ==
    [i \in 1..Len(df) |->
        [df[i] EXCEPT !.due_date = to_date(@), !.completion_date = to_date(@)]]

----------------------------------------------------------------------------
(* The sheet *)

EmptyRow(row) == \A j \in DOMAIN row : row[j] = ""

\* what the sheet's values are: rows after the last one holding a value do not exist
RECURSIVE Trim(_)
Trim(rows) ==
    IF rows = <<>> THEN <<>>
    ELSE IF EmptyRow(rows[Len(rows)]) THEN Trim(SubSeq(rows, 1, Len(rows) - 1))
    ELSE rows

\* sheet.get_all_records(): one dict per row, keyed by the header row
get_all_records(header, rows) ==
    [i \in 1..Len(rows) |-> [h \in Range(header) |-> rows[i][IndexOf(header, h)]]]

\* a batch_clear that clears nothing
batch_clear_nothing(rows) == rows

\* sheet.batch_clear(["A2:K1000"])
batch_clear(rows) ==
    [i \in 1..Len(rows) |->
        [j \in DOMAIN rows[i] |->
            IF i <= RANGE_ROWS /\ j <= RANGE_COLS THEN "" ELSE rows[i][j]]]

\* sheet.update(range_name='A2', values=data): data written from cell A2 on
update(rows, width, data) ==
    [i \in 1..Max(Len(rows), Len(data)) |->
        [j \in 1..(IF i <= Len(data) THEN Max(width, Len(data[i])) ELSE width) |->
            IF i <= Len(data) /\ j <= Len(data[i]) THEN data[i][j]
            ELSE IF i <= Len(rows) /\ j <= Len(rows[i]) THEN rows[i][j]
            ELSE ""]]

----------------------------------------------------------------------------
(* load_data and save_data *)

\* one row of load_data's frame: canonical columns (missing ones as ""), the
\* leaked app columns dropped, notify/delete inserted as False, dates parsed
load_row(rec) ==
    [c \in APP_COLS \cup Range(SPREADSHEET_ORDER) |->
        IF c \in APP_COLS THEN FALSE
        ELSE LET raw == IF c \in DOMAIN rec THEN rec[c] ELSE ""
             IN  IF c \in DATE_COLS THEN parse_date(raw) ELSE raw]

\* load_data(); failed: an exception was caught and the empty frame returned
load_data(header, rows, failed) ==
    IF failed THEN <<>>
    ELSE LET data == get_all_records(header, rows)
         IN  [i \in 1..Len(data) |-> load_row(data[i])]

\* the failure frame built from the canonical columns alone
load_columns_canonical_only(header, rows, failed) ==
    IF failed THEN Range(SPREADSHEET_ORDER)
    ELSE LET data == get_all_records(header, rows)
             read == IF Len(data) = 0 THEN {} ELSE Range(header)
         IN  ((read \cup Range(SPREADSHEET_ORDER)) \ APP_COLS) \cup APP_COLS

\* the columns of the frame load_data() returns: those read (none from a sheet
\* without records) and the canonical ones, the leaked app columns dropped and
\* the two app columns inserted; after an exception cols_with_app
load_columns(header, rows, failed) ==
    IF failed THEN APP_COLS \cup Range(SPREADSHEET_ORDER)
    ELSE LET data == get_all_records(header, rows)
             read == IF Len(data) = 0 THEN {} ELSE Range(header)
         IN  ((read \cup Range(SPREADSHEET_ORDER)) \ APP_COLS) \cup APP_COLS

\* save_values without the drop of the app columns and without the reindex:
\* the frame's thirteen columns are written, a checkbox as TRUE or FALSE
save_values_all_columns(df) ==
    [i \in 1..Len(df) |->
        <<IF df[i].notify THEN "TRUE" ELSE "FALSE",
          IF df[i].delete THEN "TRUE" ELSE "FALSE">> \o
        [j \in 1..Len(SPREADSHEET_ORDER) |->
            LET c == SPREADSHEET_ORDER[j]
            IN  IF c \in DATE_COLS THEN format_date(df[i][c]) ELSE df[i][c]]]

\* save_df.values.tolist(): app columns dropped, dates formatted, canonical order
save_values(df) ==
    [i \in 1..Len(df) |->
        [j \in 1..Len(SPREADSHEET_ORDER) |->
            LET c == SPREADSHEET_ORDER[j]
            IN  IF c \in DATE_COLS THEN format_date(df[i][c]) ELSE df[i][c]]]

SAVE_OUTCOMES == {"ok", "fail_open", "fail_update"}

\* the sheet's rows after save_data(df); outcome: where an exception was raised,
\* if any ("fail_open": lines 75-76, "fail_update": line 91, after the clear)
save_rows(rows, width, df, outcome) ==
    LET data == save_values(df)
    IN  IF outcome = "fail_open" THEN rows
        ELSE IF Len(data) = 0 THEN Trim(batch_clear(rows))
        ELSE IF outcome = "fail_update" THEN Trim(batch_clear(rows))
        ELSE Trim(update(batch_clear(rows), width, data))

\* what save_data(df) returns
save_returns(df, outcome) ==
    IF outcome = "fail_open" THEN "fail"
    ELSE IF Len(df) = 0 THEN "ok"
    ELSE IF outcome = "fail_update" THEN "fail"
    ELSE "ok"

----------------------------------------------------------------------------
(* The views of the ledger *)

\* the substrings of the titles of the model, for str.contains
Substrings(t) ==
    CASE t = "a"  -> {"", "a"}
      [] t = "b"  -> {"", "b"}
      [] t = "ab" -> {"", "a", "b", "ab"}
      [] OTHER    -> {"", t}

contains(t, pat) == pat \in Substrings(t)

\* the filter widgets: f_pri and f_ass are multiselects, f_key is a text input
NoFilter == [f_pri |-> {}, f_ass |-> {}, f_key |-> ""]

FILTERS ==
    { NoFilter,
      [f_pri |-> {"High"}, f_ass |-> {}, f_key |-> ""],
      [f_pri |-> {}, f_ass |-> {"A"}, f_key |-> "b"] }

\* df_view.index: the ledger positions the filters let through
df_view(df, f) ==
    LET by_pri == IF f.f_pri # {}
                  THEN {i \in 1..Len(df) : df[i].priority \in f.f_pri}
                  ELSE 1..Len(df)
        by_ass == IF f.f_ass # {}
                  THEN {i \in by_pri : \/ df[i].assignee1 \in f.f_ass
                                       \/ df[i].assignee2 \in f.f_ass
                                       \/ df[i].assignee3 \in f.f_ass}
                  ELSE by_pri
        by_key == IF f.f_key # ""
                  THEN {i \in by_ass : contains(df[i].title, f.f_key)}
                  ELSE by_ass
    IN  Mask(Positions(df), by_key)

\* the rows of the active view numbered anew, as after a reset of its index
df_active_renumbered(df, f) ==
    Positions(Mask(df_view(df, f), {i \in 1..Len(df) : df[i].status # "Done"}))

\* df_active.index and df_completed.index
df_active(df, f) ==
    Mask(df_view(df, f), {i \in 1..Len(df) : df[i].status # "Done"})

df_completed(df, f) ==
    Mask(df_view(df, f), {i \in 1..Len(df) : df[i].status = "Done"})

----------------------------------------------------------------------------
(* The alert count of the page header *)

\* is_expired with "<=" for "<": a record due today counts as overdue
is_expired_inclusive(due, day) == due # NaT /\ due <= day

\* due_ts < pd.Timestamp(today); a comparison with NaT is False
is_expired(due, day) == due # NaT /\ due < day

\* alert_rows.index
alert_rows(df, day) ==
    LET not_done == {i \in 1..Len(df) : df[i].status # "Done"}
        expired  == {i \in 1..Len(df) : is_expired(df[i].due_date, day)}
        high     == {i \in 1..Len(df) : df[i].priority = "High"}
    IN  Mask(Positions(df), not_done \cap (expired \cup high))

alert_count == Len(alert_rows(tasks_df, today))

----------------------------------------------------------------------------
(* Inputs *)

\* rows of a sheet as an earlier session saved them
ROW_A == <<"a", "d", "r", "A", "", "", "High", "Unstarted", "2024-06-03", "", "m">>

ROW_B == <<"b", "d", "r", "a", "", "A", "Low", "Done", "2024-06-01", "2024-06-02", "m">>

\* a row typed into the sheet by hand: a date that is no date
ROW_C == <<"ab", "", "r", "", "A", "", "Medium", "InProgress", "soon", "", "">>

\* a header with a leaked app column after the canonical ones
LEAKED_HEADER == SPREADSHEET_ORDER \o <<"delete">>

INIT_SHEETS ==
    { [header |-> SPREADSHEET_ORDER, rows |-> <<>>],
      [header |-> SPREADSHEET_ORDER, rows |-> <<ROW_A, ROW_B, ROW_C>>],
      [header |-> LEAKED_HEADER,
       rows |-> <<ROW_B \o <<"TRUE">>, ROW_A \o <<"FALSE">>>>] }

\* what the widgets of the form hold when the button is pressed
FORM_A ==
    [title |-> "a", details |-> "d", requester |-> "r",
     as1 |-> "A", as2 |-> "", as3 |-> "",
     priority |-> "High", status |-> "Unstarted",
     due_date |-> 3, completion_date |-> 2, remarks |-> "m"]

FORM_B ==
    [title |-> "b", details |-> "d", requester |-> "r",
     as1 |-> "a", as2 |-> "", as3 |-> "A",
     priority |-> "Low", status |-> "Done",
     due_date |-> 1, completion_date |-> 2, remarks |-> "m"]

FORM_INPUTS == {FORM_A, FORM_B, [FORM_A EXCEPT !.title = ""]}

\* one entry of edited_rows: a column of a display row and its new value
\* (a date arrives as text, a cleared text cell as no text); the completed
\* table shows no notify/delete column
ACTIVE_EDITS ==
    << [col |-> "notify", val |-> TRUE],
       [col |-> "delete", val |-> TRUE],
       [col |-> "status", val |-> "Done"],
       [col |-> "completion_date", val |-> "2024-06-02"],
       [col |-> "title", val |-> ""] >>

COMPLETED_EDITS ==
    << [col |-> "status", val |-> "Unstarted"],
       [col |-> "completion_date", val |-> ""] >>

\* sender address, app password, recipient address
SETTINGS ==
    { [gmail_user |-> "bot@x", gmail_pass |-> "pw", target_email |-> "boss@x"],
      [gmail_user |-> "bot@x", gmail_pass |-> "", target_email |-> "boss@x"] }

----------------------------------------------------------------------------
(* The session *)

Init ==
    /\ \E s \in INIT_SHEETS : sheet_header = s.header /\ sheet_rows = s.rows
    /\ has_session = FALSE
    /\ tasks_df = <<>>
    /\ df_columns = {}
    /\ edit_index = NoIndex
    /\ today = 2
    /\ op = "none"
    /\ op_arg = <<>>
    /\ ui_msg = ""
    /\ save_calls = 0
    /\ save_result = "none"
    /\ mail_calls = 0
    /\ mail_rows = <<>>
    /\ saving = <<>>
    /\ steps = 0

\* save_data(df) as a handler calls it: the sheet and the bookkeeping of the call
Save(df, outcome) ==
    /\ sheet_rows' = save_rows(sheet_rows, Len(sheet_header), df, outcome)
    /\ save_calls' = 1
    /\ save_result' = save_returns(df, outcome)

NoSave == sheet_rows' = sheet_rows /\ save_calls' = 0 /\ save_result' = "none"

NoMail == mail_calls' = 0 /\ mail_rows' = <<>>

Step == steps < MaxSteps /\ steps' = steps + 1

\* a new session: tasks_df is not in the session state and is loaded
SessionStart(failed) ==
    /\ Step
    /\ tasks_df' = ensure_date_columns(load_data(sheet_header, sheet_rows, failed))
    /\ has_session' = TRUE
    /\ edit_index' = NoIndex
    /\ op' = "load"
    /\ op_arg' = <<>>
    /\ ui_msg' = IF failed THEN "load_error" ELSE ""
    /\ NoSave
    /\ NoMail
    /\ df_columns' = load_columns(sheet_header, sheet_rows, failed)
    /\ UNCHANGED <<sheet_header, today, saving>>

----------------------------------------------------------------------------
(* Form submit *)

new_data(f) ==
    [delete |-> FALSE, notify |-> FALSE, title |-> f.title, details |-> f.details,
     requester |-> f.requester,
     assignee1 |-> f.as1, assignee2 |-> f.as2, assignee3 |-> f.as3,
     priority |-> f.priority, status |-> f.status,
     due_date |-> f.due_date,
     completion_date |-> IF f.completion_date # NaT /\ f.status = "Done"
                         THEN f.completion_date ELSE NaT,
     remarks |-> f.remarks]

\* the ledger after an accepted submit that appends whatever edit_index is
submitted_always_appended(df, idx, f) == Append(df, new_data(f))

\* the ledger after an accepted submit: replace at edit_index, else append
submitted(df, idx, f) ==
    IF idx # NoIndex THEN [df EXCEPT ![idx] = new_data(f)]
    ELSE Append(df, new_data(f))

\* the validation of the form left out
title_never_missing(title) == FALSE

\* "if not title": the validation of the form
title_missing(title) == title = ""

FormSubmit(f, outcome) ==
    /\ Step
    /\ has_session
    /\ op' = "form"
    /\ op_arg' = f
    /\ NoMail
    /\ UNCHANGED <<sheet_header, has_session, df_columns, today, saving>>
    /\ IF title_missing(f.title)
       THEN /\ ui_msg' = "title_required"
            /\ NoSave
            /\ UNCHANGED <<tasks_df, edit_index>>
       ELSE /\ edit_index # NoIndex \/ Len(tasks_df) < MaxRows
            /\ tasks_df' = ensure_date_columns(submitted(tasks_df, edit_index, f))
            /\ edit_index' = NoIndex
            /\ Save(tasks_df', outcome)
            /\ ui_msg' = IF save_result' = "fail" THEN "save_error"
                         ELSE IF edit_index # NoIndex THEN "updated" ELSE "registered"

----------------------------------------------------------------------------
(* Cell edits *)

\* tasks_df.at[real_idx, c] = v, then ensure_date_columns on the date columns
at_set(df, real_idx, e) ==
    [df EXCEPT ![real_idx] =
        [c \in DOMAIN df[real_idx] |->
            IF c = e.col
            THEN IF c \in DATE_COLS THEN parse_date(e.val) ELSE e.val
            ELSE df[real_idx][c]]]

\* the edited_rows handler of the active table: display row i, entry e
EditActive(f, i, k, outcome) ==
    /\ Step
    /\ has_session
    /\ i \in 1..Len(df_active(tasks_df, f))
    /\ LET real_idx == df_active(tasks_df, f)[i]
       IN  /\ tasks_df' = ensure_date_columns(at_set(tasks_df, real_idx, ACTIVE_EDITS[k]))
           /\ op_arg' = [real_idx |-> real_idx, col |-> ACTIVE_EDITS[k].col,
                         val |-> ACTIVE_EDITS[k].val, filter |-> f, row |-> i]
    /\ Save(tasks_df', outcome)
    /\ op' = "edit_active"
    /\ ui_msg' = IF save_result' = "fail" THEN "save_error" ELSE ""
    /\ NoMail
    /\ UNCHANGED <<sheet_header, has_session, df_columns, edit_index, today, saving>>

\* the edited_rows handler of the completed table
EditCompleted(f, i, k, outcome) ==
    /\ Step
    /\ has_session
    /\ i \in 1..Len(df_completed(tasks_df, f))
    /\ LET real_idx == df_completed(tasks_df, f)[i]
       IN  /\ tasks_df' = ensure_date_columns(at_set(tasks_df, real_idx, COMPLETED_EDITS[k]))
           /\ op_arg' = [real_idx |-> real_idx, col |-> COMPLETED_EDITS[k].col,
                         val |-> COMPLETED_EDITS[k].val, filter |-> f, row |-> i]
    /\ Save(tasks_df', outcome)
    /\ op' = "edit_completed"
    /\ ui_msg' = IF save_result' = "fail" THEN "save_error" ELSE ""
    /\ NoMail
    /\ UNCHANGED <<sheet_header, has_session, df_columns, edit_index, today, saving>>

----------------------------------------------------------------------------
(* Bulk delete *)

\* tasks_df[tasks_df['delete']].index
delete_idx(df) == Mask(Positions(df), {i \in 1..Len(df) : df[i].delete})

\* dropped without the reset of the app columns
dropped_flags_kept(df) ==
    LET kept == Mask(Positions(df), (1..Len(df)) \ Range(delete_idx(df)))
    IN  [k \in 1..Len(kept) |-> df[kept[k]]]

\* drop(idx), reset_index(drop=True), then both app columns set to False
dropped(df) ==
    LET kept == Mask(Positions(df), (1..Len(df)) \ Range(delete_idx(df)))
    IN  [k \in 1..Len(kept) |-> [df[kept[k]] EXCEPT !.delete = FALSE, !.notify = FALSE]]

BulkDelete(f, outcome) ==
    /\ Step
    /\ has_session
    /\ op' = "bulk_delete"
    /\ op_arg' = [removed |-> Rows(tasks_df, delete_idx(tasks_df)),
                  hidden |-> Range(delete_idx(tasks_df)) \ Range(df_active(tasks_df, f))]
    /\ NoMail
    /\ UNCHANGED <<sheet_header, has_session, df_columns, edit_index, today, saving>>
    /\ IF Len(delete_idx(tasks_df)) > 0
       THEN /\ tasks_df' = dropped(tasks_df)
            /\ Save(tasks_df', outcome)
            /\ ui_msg' = IF save_result' = "fail" THEN "save_error" ELSE ""
       ELSE /\ NoSave
            /\ ui_msg' = ""
            /\ UNCHANGED tasks_df

----------------------------------------------------------------------------
(* Notification *)

\* str.lower() on the names of the model
lower(x) == IF x = "A" THEN "a" ELSE x

\* all_assignees: the distinct values of the three assignee columns, without
\* the empty one and the texts of a missing value
all_assignees(df) ==
    {x \in UNION {{df[i].assignee1, df[i].assignee2, df[i].assignee3} : i \in 1..Len(df)} :
        x # "" /\ lower(x) # "nan" /\ lower(x) # "none"}

\* target_rows with the names compared without regard to case
target_rows_any_case(df, target_name) ==
    LET checked_rows    == Mask(Positions(df), {i \in 1..Len(df) : df[i].notify = TRUE})
        incomplete_rows == Mask(checked_rows, {i \in 1..Len(df) : df[i].status # "Done"})
    IN  Mask(incomplete_rows,
             {i \in 1..Len(df) : \/ lower(df[i].assignee1) = lower(target_name)
                                 \/ lower(df[i].assignee2) = lower(target_name)
                                 \/ lower(df[i].assignee3) = lower(target_name)})

\* target_rows.index, computed on df_base
target_rows(df, target_name) ==
    LET checked_rows    == Mask(Positions(df), {i \in 1..Len(df) : df[i].notify = TRUE})
        incomplete_rows == Mask(checked_rows, {i \in 1..Len(df) : df[i].status # "Done"})
    IN  Mask(incomplete_rows,
             {i \in 1..Len(df) : \/ df[i].assignee1 = target_name
                                 \/ df[i].assignee2 = target_name
                                 \/ df[i].assignee3 = target_name})

\* the guard of the send button without the test of the password
settings_given_no_password(s, target_name) ==
    s.gmail_user # "" /\ s.target_email # "" /\ target_name # ""

\* the guard of the send button: all four inputs are filled in
settings_given(s, target_name) ==
    s.gmail_user # "" /\ s.gmail_pass # "" /\ s.target_email # "" /\ target_name # ""

\* the send button, with the notify checkbox of the records of a mail that was
\* sent cleared afterwards
Notify_clearing_sent_flags(s, target_name, sent) ==
    /\ Step
    /\ has_session
    /\ target_name \in {""} \cup all_assignees(tasks_df)
    /\ op' = "notify"
    /\ NoSave
    /\ UNCHANGED <<sheet_header, has_session, df_columns, edit_index, today, saving>>
    /\ IF settings_given(s, target_name)
       THEN LET rows == target_rows(tasks_df, target_name)
            IN  IF Len(rows) > 0
                THEN /\ mail_calls' = 1
                     /\ mail_rows' = Rows(tasks_df, rows)
                     /\ ui_msg' = IF sent THEN "sent" ELSE "send_error"
                     /\ tasks_df' = [i \in 1..Len(tasks_df) |->
                                       IF sent /\ i \in Range(rows)
                                       THEN [tasks_df[i] EXCEPT !.notify = FALSE]
                                       ELSE tasks_df[i]]
                ELSE /\ NoMail
                     /\ ui_msg' = "nothing_to_send"
                     /\ UNCHANGED tasks_df
       ELSE /\ NoMail
            /\ ui_msg' = "settings_missing"
            /\ UNCHANGED tasks_df
    /\ op_arg' = [settings |-> s, target_name |-> target_name,
                  returned |-> sent /\ mail_calls' = 1,
                  repeated |-> /\ op = "notify"
                               /\ op_arg.target_name = target_name
                               /\ mail_calls = 1]

\* the send button; sent: what send_gmail returns when it is called
Notify(s, target_name, sent) ==
    /\ Step
    /\ has_session
    /\ target_name \in {""} \cup all_assignees(tasks_df)
    /\ op' = "notify"
    /\ NoSave
    /\ UNCHANGED <<sheet_header, has_session, tasks_df, df_columns, edit_index, today,
                   saving>>
    /\ IF settings_given(s, target_name)
       THEN LET rows == target_rows(tasks_df, target_name)
            IN  IF Len(rows) > 0
                THEN /\ mail_calls' = 1
                     /\ mail_rows' = Rows(tasks_df, rows)
                     /\ ui_msg' = IF sent THEN "sent" ELSE "send_error"
                ELSE /\ NoMail
                     /\ ui_msg' = "nothing_to_send"
       ELSE /\ NoMail
            /\ ui_msg' = "settings_missing"
    /\ op_arg' = [settings |-> s, target_name |-> target_name,
                  returned |-> sent /\ mail_calls' = 1,
                  repeated |-> /\ op = "notify"
                               /\ op_arg.target_name = target_name
                               /\ mail_calls = 1]

----------------------------------------------------------------------------
(* Specifications *)

Next ==
    \/ \E failed \in BOOLEAN : SessionStart(failed)
    \/ \E f \in FORM_INPUTS, o \in SAVE_OUTCOMES : FormSubmit(f, o)
    \/ \E f \in FILTERS, i \in 1..MaxRows, k \in DOMAIN ACTIVE_EDITS, o \in SAVE_OUTCOMES :
          EditActive(f, i, k, o)
    \/ \E f \in FILTERS, i \in 1..MaxRows, k \in DOMAIN COMPLETED_EDITS, o \in SAVE_OUTCOMES :
          EditCompleted(f, i, k, o)
    \/ \E f \in FILTERS, o \in SAVE_OUTCOMES : BulkDelete(f, o)
    \/ \E s \in SETTINGS, n \in {"", "A", "a"}, sent \in BOOLEAN : Notify(s, n, sent)

Spec == Init /\ [][Next]_vars

\* the page on one record, on any day: the header's alert count is recomputed
\* by every script run
ALERT_RECORDS ==
    { [new_data(FORM_A) EXCEPT !.priority = p, !.status = st, !.due_date = d] :
        p \in Range(PRIORITY_OPTIONS), st \in Range(STATUS_OPTIONS), d \in {NaT} \cup Days }

InitAlert ==
    /\ sheet_header = SPREADSHEET_ORDER
    /\ sheet_rows = <<>>
    /\ has_session = TRUE
    /\ \E r \in ALERT_RECORDS : tasks_df = <<r>>
    /\ df_columns = APP_COLS \cup Range(SPREADSHEET_ORDER)
    /\ edit_index = NoIndex
    /\ today \in Days
    /\ op = "none"
    /\ op_arg = <<>>
    /\ ui_msg = ""
    /\ save_calls = 0
    /\ save_result = "none"
    /\ mail_calls = 0
    /\ mail_rows = <<>>
    /\ saving = <<>>
    /\ steps = 0

\* a script run on a later day, with no widget event
Rerun ==
    /\ Step
    /\ today + 1 \in Days
    /\ today' = today + 1
    /\ op' = "rerun"
    /\ UNCHANGED <<sheet_header, sheet_rows, has_session, tasks_df, df_columns,
                   edit_index, op_arg, ui_msg, save_calls, save_result, mail_calls,
                   mail_rows, saving>>

NextAlert == Rerun

SpecAlert == InitAlert /\ [][NextAlert]_vars

\* the form handler on a loaded session, for every value edit_index can take
\* in its two branches: None, or the label of a record of the ledger
InitForm ==
    /\ \E s \in INIT_SHEETS :
          /\ sheet_header = s.header
          /\ sheet_rows = s.rows
          /\ tasks_df = ensure_date_columns(load_data(s.header, s.rows, FALSE))
          /\ df_columns = load_columns(s.header, s.rows, FALSE)
    /\ has_session = TRUE
    /\ edit_index \in {NoIndex} \cup (1..Len(tasks_df))
    /\ today = 2
    /\ op = "load"
    /\ op_arg = <<>>
    /\ ui_msg = ""
    /\ save_calls = 0
    /\ save_result = "none"
    /\ mail_calls = 0
    /\ mail_rows = <<>>
    /\ saving = <<>>
    /\ steps = 0

NextForm == \E f \in FORM_INPUTS, o \in SAVE_OUTCOMES : FormSubmit(f, o)

SpecForm == InitForm /\ [][NextForm]_vars

\* the ledgers of two sessions that have diverged from one another
SAVING_LEDGERS ==
    { ensure_date_columns(load_data(SPREADSHEET_ORDER, rows, FALSE)) :
        rows \in { <<>>, <<ROW_A>>, <<ROW_B, ROW_C>>, <<ROW_A, ROW_B, ROW_C>> } }

\* two sessions on the same sheet, each about to make the first call on the
\* sheet of a save_data(df) of its ledger
InitSaving ==
    /\ \E s \in INIT_SHEETS : sheet_header = s.header /\ sheet_rows = s.rows
    /\ \E d1 \in SAVING_LEDGERS, d2 \in SAVING_LEDGERS :
          saving = << [df |-> d1, pc |-> "batch_clear"],
                      [df |-> d2, pc |-> "batch_clear"] >>
    /\ has_session = FALSE
    /\ tasks_df = <<>>
    /\ df_columns = {}
    /\ edit_index = NoIndex
    /\ today = 2
    /\ op = "none"
    /\ op_arg = <<>>
    /\ ui_msg = ""
    /\ save_calls = 0
    /\ save_result = "none"
    /\ mail_calls = 0
    /\ mail_rows = <<>>
    /\ steps = 0

\* session s: sheet.batch_clear(["A2:K1000"]); the update follows if len(data) > 0
SavingClear(s) ==
    /\ saving[s].pc = "batch_clear"
    /\ sheet_rows' = Trim(batch_clear(sheet_rows))
    /\ saving' = [saving EXCEPT ![s].pc =
                     IF Len(save_values(saving[s].df)) > 0 THEN "update" ELSE "done"]
    /\ UNCHANGED <<sheet_header, has_session, tasks_df, df_columns, edit_index, today,
                   op, op_arg, ui_msg, save_calls, save_result, mail_calls, mail_rows,
                   steps>>

\* session s: sheet.update(range_name='A2', values=data)
SavingUpdate(s) ==
    /\ saving[s].pc = "update"
    /\ sheet_rows' = Trim(update(sheet_rows, Len(sheet_header), save_values(saving[s].df)))
    /\ saving' = [saving EXCEPT ![s].pc = "done"]
    /\ UNCHANGED <<sheet_header, has_session, tasks_df, df_columns, edit_index, today,
                   op, op_arg, ui_msg, save_calls, save_result, mail_calls, mail_rows,
                   steps>>

NextSaving ==
    \/ \E s \in 1..2 : SavingClear(s)
    \/ \E s \in 1..2 : SavingUpdate(s)

SpecSaving == InitSaving /\ [][NextSaving]_vars

----------------------------------------------------------------------------
(* Properties *)

\* the ledger as a load gives it back: the app columns False
flags_cleared(df) ==
    [i \in 1..Len(df) |-> [df[i] EXCEPT !.delete = FALSE, !.notify = FALSE]]

\* C1: after a successful save, a load of the sheet yields the in-memory
\* ledger, record by record and in order, with delete and notify False,
\* whatever the sheet held before the save.
C1_SaveLoadRoundTrip ==
    save_result = "ok" =>
        load_data(sheet_header, sheet_rows, FALSE) = flags_cleared(tasks_df)

\* C2: a record is counted in the alert count exactly when its status is not
\* Done and it is strictly overdue (a present due date before today) or of
\* High priority.
C2_AlertPredicate ==
    LET alerting(r) ==
            /\ r.status # "Done"
            /\ \/ r.due_date \in Days /\ r.due_date < today
               \/ r.priority = "High"
    IN  /\ \A i \in 1..Len(tasks_df) :
              i \in Range(alert_rows(tasks_df, today)) <=> alerting(tasks_df[i])
        /\ alert_count = Cardinality({i \in 1..Len(tasks_df) : alerting(tasks_df[i])})

\* C2 witness: a Medium record in progress that is due today is not counted,
\* on a page whose ledger is that record.
C2_Witness ==
    /\ op = "rerun"
    /\ Len(tasks_df) = 1
    /\ tasks_df[1].status = "InProgress"
    /\ tasks_df[1].priority = "Medium"
    /\ tasks_df[1].due_date = today
    /\ alert_count = 0

\* C3: a submit of the form with an empty title reports the validation error
\* and changes neither the ledger nor the edit target nor the sheet, and
\* calls no save.
C3_EmptyTitleRejected ==
    [][ (op' = "form" /\ op_arg'.title = "") =>
            /\ ui_msg' = "title_required"
            /\ tasks_df' = tasks_df
            /\ edit_index' = edit_index
            /\ save_calls' = 0
            /\ sheet_rows' = sheet_rows
            /\ sheet_header' = sheet_header ]_vars

\* C3 witness: an empty title was submitted on a ledger that holds records.
C3_Witness ==
    /\ op = "form"
    /\ op_arg.title = ""
    /\ ui_msg = "title_required"
    /\ Len(tasks_df) > 0
    /\ Len(sheet_rows) > 0

\* C4: a bulk delete on a ledger with a flagged record leaves exactly the
\* records that were not flagged, in their order, each with delete and notify
\* False, and calls save once; it does so whatever the tables show.
C4_BulkDeleteCompacts ==
    [][ (op' = "bulk_delete" /\ \E i \in 1..Len(tasks_df) : tasks_df[i].delete) =>
            /\ tasks_df' = flags_cleared(SelectSeq(tasks_df, LAMBDA r : ~r.delete))
            /\ save_calls' = 1
            /\ op_arg'.removed = SelectSeq(tasks_df, LAMBDA r : r.delete) ]_vars

\* C4 witness: a bulk delete removed a flagged Done record that the active
\* table did not show, left two records and saved.
C4_Witness ==
    /\ op = "bulk_delete"
    /\ save_calls = 1
    /\ Len(tasks_df) >= 2
    /\ op_arg.hidden # {}
    /\ \E k \in 1..Len(op_arg.removed) : op_arg.removed[k].status = "Done"

\* C5: every record of the ledger whose status is not Done has no completion
\* date.
C5_CompletionDateCleared ==
    \A i \in 1..Len(tasks_df) :
        tasks_df[i].status # "Done" => tasks_df[i].completion_date = NaT

\* C6: when the save of a handler fails, the ledger is what it was before the
\* handler ran.
C6_FailedSaveKeepsLedger ==
    [][ save_result' = "fail" => tasks_df' = tasks_df ]_vars

\* the texts of a checkbox value in a cell
FLAG_TEXT == {"TRUE", "FALSE"}

\* C7: no save writes the delete or notify column: no cell outside the
\* columns A..K is ever written and no cell of A..K holds a flag; and every
\* load gives records of the thirteen columns with delete and notify False,
\* also from a sheet with a leaked app column.
C7_AppColumnsNeverStored ==
    /\ [](op = "load" =>
            \A i \in 1..Len(tasks_df) :
                /\ DOMAIN tasks_df[i] = APP_COLS \cup Range(SPREADSHEET_ORDER)
                /\ tasks_df[i].delete = FALSE
                /\ tasks_df[i].notify = FALSE)
    /\ [](\A i \in 1..Len(sheet_rows) : \A j \in DOMAIN sheet_rows[i] :
            j <= RANGE_COLS => sheet_rows[i][j] \notin FLAG_TEXT)
    /\ [][\A i \in 1..Len(sheet_rows') : \A j \in DOMAIN sheet_rows'[i] :
            j > RANGE_COLS =>
                sheet_rows'[i][j] =
                    IF i <= Len(sheet_rows) /\ j \in DOMAIN sheet_rows[i]
                    THEN sheet_rows[i][j] ELSE ""]_vars

\* C7 witness: a ledger with a flagged record was saved to a sheet that has a
\* leaked delete column holding a value.
C7_Witness ==
    /\ sheet_header = LEAKED_HEADER
    /\ save_result = "ok"
    /\ \E i \in 1..Len(tasks_df) : tasks_df[i].delete \/ tasks_df[i].notify
    /\ \E i \in 1..Len(sheet_rows) : sheet_rows[i][Len(LEAKED_HEADER)] = "TRUE"

\* the records a dispatch to an addressee is about
selected(df, name) ==
    SelectSeq(df, LAMBDA r : /\ r.notify
                             /\ r.status # "Done"
                             /\ name \in {r.assignee1, r.assignee2, r.assignee3})

\* C8 as stated: every press of the send button calls the mail transport once.
C8_AlwaysOneTransportCall ==
    op = "notify" => mail_calls = 1

\* C8 as amended: a press of the send button calls the mail transport once
\* when sender, password, recipient and addressee are all given and a record
\* is selected, and then reports what the call returned; otherwise it calls
\* nothing and reports the missing settings or the empty selection.
C8_OneTransportCallWhenDue ==
    op = "notify" =>
        LET s     == op_arg.settings
            given == /\ s.gmail_user # ""
                     /\ s.gmail_pass # ""
                     /\ s.target_email # ""
                     /\ op_arg.target_name # ""
            due   == given /\ selected(tasks_df, op_arg.target_name) # <<>>
        IN  /\ mail_calls = IF due THEN 1 ELSE 0
            /\ due => ui_msg = IF op_arg.returned THEN "sent" ELSE "send_error"
            /\ ~given => ui_msg = "settings_missing"
            /\ given /\ ~due => ui_msg = "nothing_to_send"

\* C8 witness: a dispatch called the transport, which failed.
C8_Witness ==
    /\ op = "notify"
    /\ mail_calls = 1
    /\ ui_msg = "send_error"

\* C9: the records a notification enumerates are the records of the whole
\* ledger with notify set, a status other than Done and the addressee in one
\* of the three assignee columns, exactly as written, in the ledger's order.
C9_NotificationSelection ==
    (op = "notify" /\ mail_calls = 1) =>
        mail_rows = selected(tasks_df, op_arg.target_name)

\* C9 witness: a notification enumerates a record whose second or third
\* assignee is the addressee, and not the whole ledger.
C9_Witness ==
    /\ op = "notify"
    /\ mail_calls = 1
    /\ Len(mail_rows) < Len(tasks_df)
    /\ \E k \in 1..Len(mail_rows) : mail_rows[k].assignee1 # op_arg.target_name

\* the cells A..K of a row of the sheet
range_cells(row) == SubSeq(row, 1, RANGE_COLS)

\* the cells a record is stored as
stored_as(r) ==
    <<r.title, r.details, r.requester, r.assignee1, r.assignee2, r.assignee3,
      r.priority, r.status,
      IF r.due_date = NaT THEN "" ELSE DATE_TEXT[r.due_date],
      IF r.completion_date = NaT THEN "" ELSE DATE_TEXT[r.completion_date],
      r.remarks>>

\* a script run that accepted a mutation
accepted_mutation ==
    \/ op = "form" /\ op_arg.title # ""
    \/ op \in {"edit_active", "edit_completed"}
    \/ op = "bulk_delete" /\ op_arg.removed # <<>>

\* C10: a script run that accepts a mutation calls save once, and when that
\* save succeeds the data range of the sheet holds the records of the ledger,
\* in order, without the app columns, and nothing else.
C10_SaveAfterMutation ==
    accepted_mutation =>
        /\ save_calls = 1
        /\ save_result \in {"ok", "fail"}
        /\ save_result = "ok" =>
              /\ \A i \in 1..Len(tasks_df) :
                    /\ i <= Len(sheet_rows)
                    /\ range_cells(sheet_rows[i]) = stored_as(tasks_df[i])
              /\ \A i \in 1..Len(sheet_rows) :
                    i > Len(tasks_df) => EmptyRow(range_cells(sheet_rows[i]))

\* C10 witness: a bulk delete shortened the ledger and its save succeeded.
C10_Witness ==
    /\ op = "bulk_delete"
    /\ op_arg.removed # <<>>
    /\ save_result = "ok"
    /\ Len(tasks_df) >= 1

\* C11: once every record of the ledger has a title, as after a load of a
\* sheet whose rows all have one, no form submit, cell edit or bulk delete
\* leaves a record without a title.
C11_TitlesStayNonEmpty ==
    [][ (/\ op' \in {"form", "edit_active", "edit_completed", "bulk_delete"}
         /\ \A i \in 1..Len(tasks_df) : tasks_df[i].title # "") =>
            \A i \in 1..Len(tasks_df') : tasks_df'[i].title # "" ]_vars

\* C12: a load that hits an error is not propagated: the session holds an
\* empty ledger with the two app columns and the eleven canonical columns,
\* and the next script run still handles the form, the bulk delete and the
\* send button.
C12_LoadFailureGivesEmptyLedger ==
    (op = "load" /\ ui_msg = "load_error") =>
        /\ has_session
        /\ tasks_df = <<>>
        /\ df_columns = {"notify", "delete"} \cup Range(SPREADSHEET_ORDER)
        /\ Cardinality(df_columns) = 13
        /\ steps < MaxSteps =>
              /\ ENABLED FormSubmit(FORM_A, "ok")
              /\ ENABLED BulkDelete(NoFilter, "ok")
              /\ \A s \in SETTINGS : ENABLED Notify(s, "", TRUE)

\* a load failed while the sheet held rows
C12_Witness ==
    /\ op = "load"
    /\ ui_msg = "load_error"
    /\ tasks_df = <<>>
    /\ Len(sheet_rows) > 0

\* C13: a script run that handles the send button, whatever the transport
\* returns, changes neither the ledger (no notify checkbox is cleared) nor the
\* sheet and calls no save; when the run before it was a dispatch to the same
\* addressee that called the transport, a dispatch with the settings filled
\* in selects the same records and calls the transport again.
C13_DispatchChangesNothing ==
    [][ op' = "notify" =>
          /\ tasks_df' = tasks_df
          /\ sheet_header' = sheet_header
          /\ sheet_rows' = sheet_rows
          /\ save_calls' = 0
          /\ (/\ op = "notify"
              /\ mail_calls = 1
              /\ op_arg'.target_name = op_arg.target_name
              /\ op_arg'.settings.gmail_user # ""
              /\ op_arg'.settings.gmail_pass # ""
              /\ op_arg'.settings.target_email # "") =>
                 /\ mail_calls' = 1
                 /\ mail_rows' = mail_rows ]_vars

\* a mail was sent, and the dispatch repeated to the same addressee sent the
\* same records, which still carry their notify checkbox
C13_Witness ==
    /\ op = "notify"
    /\ op_arg.repeated
    /\ op_arg.returned
    /\ mail_calls = 1
    /\ mail_rows # <<>>
    /\ \A k \in 1..Len(mail_rows) : mail_rows[k].notify

\* the ledger positions a table shows under filter f, of the records that are
\* Done (the completed table) or are not (the active table)
shown(df, f, done) ==
    {p \in 1..Len(df) :
        /\ (df[p].status = "Done") = done
        /\ f.f_pri # {} => df[p].priority \in f.f_pri
        /\ f.f_ass # {} => {df[p].assignee1, df[p].assignee2, df[p].assignee3} \cap f.f_ass # {}
        /\ f.f_key # "" => contains(df[p].title, f.f_key)}

\* C14: a cell edit of display row i of the active or of the completed table,
\* under any filter, writes the given value (a date for the text of a date)
\* to the given column of the record display row i was sourced from, and
\* changes no other record, no other field of that record, and neither the
\* length nor the order of the ledger.
C14_CellEditHitsSourceRecord ==
    [][ op' \in {"edit_active", "edit_completed"} =>
          LET rows  == shown(tasks_df, op_arg'.filter, op' = "edit_completed")
              src   == CHOOSE p \in rows :
                           Cardinality({q \in rows : q <= p}) = op_arg'.row
              given == IF op_arg'.col \notin DATE_COLS THEN op_arg'.val
                       ELSE IF \E d \in Days : DATE_TEXT[d] = op_arg'.val
                       THEN CHOOSE d \in Days : DATE_TEXT[d] = op_arg'.val
                       ELSE NaT
          IN  /\ Len(tasks_df') = Len(tasks_df)
              /\ \A p \in 1..Len(tasks_df) : p # src => tasks_df'[p] = tasks_df[p]
              /\ \A c \in DOMAIN tasks_df[src] :
                    c # op_arg'.col => tasks_df'[src][c] = tasks_df[src][c]
              /\ tasks_df'[src][op_arg'.col] = given ]_vars

\* a cell of a display row was edited whose record stands further down in
\* the ledger than the row does in the table, under a filter
C14_Witness ==
    /\ op \in {"edit_active", "edit_completed"}
    /\ op_arg.filter # NoFilter
    /\ op_arg.row < op_arg.real_idx
    /\ Len(tasks_df) = 3

\* record r holds what form f entered: the fields as entered, the completion
\* date only with status Done, both checkboxes unticked
entered(r, f) ==
    /\ r.title = f.title /\ r.details = f.details /\ r.requester = f.requester
    /\ r.assignee1 = f.as1 /\ r.assignee2 = f.as2 /\ r.assignee3 = f.as3
    /\ r.priority = f.priority /\ r.status = f.status /\ r.remarks = f.remarks
    /\ r.due_date = f.due_date
    /\ r.completion_date = (IF f.status = "Done" THEN f.completion_date ELSE NaT)
    /\ r.delete = FALSE
    /\ r.notify = FALSE

\* C15: an accepted form submit with an edit target replaces the record at
\* the target and keeps the length and every other record; without an edit
\* target it appends one record at the end; afterwards there is no edit
\* target, and the record entered has both checkboxes unticked.
C15_FormSubmitReplacesOrAppends ==
    [][ (op' = "form" /\ op_arg'.title # "") =>
          /\ edit_index' = NoIndex
          /\ IF edit_index # NoIndex
             THEN /\ Len(tasks_df') = Len(tasks_df)
                  /\ \A p \in 1..Len(tasks_df) :
                        p # edit_index => tasks_df'[p] = tasks_df[p]
                  /\ entered(tasks_df'[edit_index], op_arg')
             ELSE /\ Len(tasks_df') = Len(tasks_df) + 1
                  /\ \A p \in 1..Len(tasks_df) : tasks_df'[p] = tasks_df[p]
                  /\ entered(tasks_df'[Len(tasks_df')], op_arg') ]_vars

\* a submit replaced a record of a ledger of three and was saved
C15_Witness ==
    /\ op = "form"
    /\ ui_msg = "updated"
    /\ edit_index = NoIndex
    /\ Len(tasks_df) = 3
    /\ \E p \in 1..3 : entered(tasks_df[p], op_arg)

\* the data range of the sheet holds the records of df, in order, and
\* nothing else
holds_ledger(rows, df) ==
    /\ \A i \in 1..Len(df) :
          i <= Len(rows) /\ range_cells(rows[i]) = stored_as(df[i])
    /\ \A i \in 1..Len(rows) : i > Len(df) => EmptyRow(range_cells(rows[i]))

\* C16: once the saves of both sessions have completed, the data range of
\* the sheet holds the whole ledger of one of the two sessions and nothing
\* else, never rows of both.
C16_LastWriterWins ==
    (\A s \in DOMAIN saving : saving[s].pc = "done") =>
        \E s \in DOMAIN saving : holds_ledger(sheet_rows, saving[s].df)

\* C17: a script run whose save reports failure leaves the sheet as it was
\* before the save, or with its data range holding the whole new ledger;
\* never cleared and not written.
C17_FailedSaveLeavesStoreWhole ==
    [][ save_result' = "fail" =>
          \/ sheet_rows' = sheet_rows
          \/ holds_ledger(sheet_rows', tasks_df') ]_vars

\* the number of records the data range of the sheet holds
stored_count(rows) ==
    Cardinality({i \in 1..Len(rows) : ~EmptyRow(range_cells(rows[i]))})

\* C18: in a session, a script run whose save did not fail leaves fewer
\* records in the sheet than before only when it is a bulk delete, and then
\* no more are gone than were flagged; so a form submit after a failed load
\* erases no row of the sheet.
C18_RowsLeaveOnlyByBulkDelete ==
    [][ (save_result' # "fail" /\ stored_count(sheet_rows') < stored_count(sheet_rows)) =>
          /\ op' = "bulk_delete"
          /\ stored_count(sheet_rows) - stored_count(sheet_rows') <= Len(op_arg'.removed) ]_vars

====
